---- MODULE Spec2Model ----
(***************************************************************************)
(* Model of the "max processed index" detection aggregator                 *)
(* (src/src/orchestrator/aggregators/max_processed_index.rs).              *)
(*                                                                         *)
(* MaxProcessedIndexAggregator::process spawns one task that drains the    *)
(* detector streams one after the other; for every DetectionResult it      *)
(* records the verdict in detection_tracker (add_detection_result), makes  *)
(* one readiness check against processed_index and, when the considered    *)
(* span has been reported total_detectors times, sends its classified      *)
(* result on result_tx and moves processed_index to the span's end.        *)
(* The only thing it reads from outside is element 0 of the shared          *)
(* generation buffer (input_token_count); the generation task only appends  *)
(* to that buffer, so element 0 never changes once it exists.              *)
(***************************************************************************)
EXTENDS Integers, Sequences, FiniteSets, TLC

\* ------------------------------------------------------------------ bounds
\* Largest token index of a span.
MaxIdx == 2
\* Largest number of detector streams handed to process().
MaxDetectors == 2
\* Largest number of verdicts the detector streams deliver in one run.
MaxVerdicts == 3

\* Largest number of verdicts delivered in one run of a well-formed request.
MaxRequestVerdicts == 4

\* Largest number of verdicts delivered in one run where chunk texts vary.
MaxTextVerdicts == 2

\* Largest number of verdicts the detectors send in one run where the
\* detector channels are modelled.
MaxChannelVerdicts == 2

\* Largest number of verdicts delivered in one run where the consumer of the
\* output channel is modelled.
MaxConsumerVerdicts == 2

\* The capacity of the output channel where a full channel is to be reached:
\* the 1024 of the code scaled down.
SmallCapacity == 1

\* Largest number of verdicts delivered in one run where the writers of the
\* generation buffer are modelled.
MaxMetaVerdicts == 2

\* Largest number of calls made on one GenerationClient.
MaxClientCalls == 3

\* Largest number of verdicts where the indices are taken as sent on the wire.
MaxWireVerdicts == 2

\* mpsc::channel(1024): capacity of the output channel.
ChannelCapacity == 1024

\* ------------------------------------------------------------ input values
Indices == 0..MaxIdx

\* Tracker keys (start, end) of the chunks a detector can report on.
Spans == {k \in Indices \X Indices : k[1] <= k[2]}

\* The detections of one verdict from the d-th stream, flattened: [] (a clean
\* verdict) or one annotation, labelled with the detector that produced it.
Detections(d) == {<<>>, <<d>>}

\* The token texts of a chunk (result.chunk.results), each text a sequence of
\* characters: no token, one token, two tokens.
ChunkTokens == {<<>>, << <<"a">> >>, << <<"a", "b">>, <<"c">> >>}

\* The chunk every verdict carries where the text is not looked at.
PlainChunk == {<< <<"a">> >>}

\* input_token_count of the first element of the shared generation buffer.
InputTokenCounts == {0}

\* Option::None for a span.
NoSpan == <<>>

VARIABLES
    generations,        \* the shared Vec<ClassifiedGeneratedTextStreamResult>, as far as the task reads it: element 0
    total_detectors,    \* detection_streams.len()
    stream_idx,         \* position of the outer for loop over detection_streams
    detection_tracker,  \* BTreeMap<(u32,u32), (ClassifiedGeneratedTextStreamResult, usize)>
    processed_index,    \* the watermark
    pc,                 \* "recv": at stream.recv().await; "lock": at generations.read();
                        \* "send": at result_tx.send(..).await; "done": the task returned;
                        \* "panicked": the lock was poisoned or generations[0] did not exist
    sending,            \* the span whose result is being sent while pc = "send"
    result_tx,          \* every event sent on the output channel, in order
    received,           \* history: every verdict received, in order
    emitted,            \* history: for every send, the span, its count, the watermark and the verdict being processed
    health_check,       \* the last client health check: its response and the HealthCheckResult made of it
    detection_streams,  \* per detector, its channel: the verdicts sent and not yet received, and
                        \* whether the sender is still there
    result_rx,          \* the output channel seen from its receiver: the capacity, the number of
                        \* events the consumer has taken, and whether the receiver is still there
    generation_client,  \* the GenerationClient: its inner client (self.0), every call made on it
                        \* with its result, and every request it made to a backend
    generations_lock    \* the RwLock around generations: "free", "write" (a writer holds it)
                        \* or "poisoned" (a writer panicked holding it)

\* The state of the clients: the health checks and the generation client.
client_vars == <<health_check, generation_client>>

\* What the task shares with the consumer and with the writers of generations.
shared_vars == <<result_rx, generations_lock>>

vars == <<generations, total_detectors, stream_idx, detection_tracker, processed_index, pc,
          sending, result_tx, received, emitted, health_check, detection_streams,
          result_rx, generation_client, generations_lock>>

\* ------------------------------------------------------- health checks
\* An absent optional value (None, or a JSON field that is not there).
None == "None"

\* No health check made yet.
NoCheck == [kind |-> "none"]

\* ------------------------------------------------------- generation client
\* Model ids a caller asks for.
ModelIds == {"model-a", "model-b"}

\* What a backend answers to a request: a response, a response without any
\* element in `responses` (TGIS tokenize only), or an error.
BackendResponses == {"ok", "empty", "error"}

\* GenerationClient::tgis, GenerationClient::nlp, GenerationClient::not_configured:
\* a client around the given inner client, with no call made yet.
GenerationClient(inner) == [inner |-> inner, calls |-> <<>>, backend_calls |-> <<>>]

tgis == GenerationClient("Tgis")

nlp == GenerationClient("Nlp")

not_configured == GenerationClient(None)

\* Err(Error::ModelNotFound { model_id }), without any request to a backend.
ModelNotFound(model_id) ==
    [result |-> <<"Err", "ModelNotFound", model_id>>, backend_calls |-> <<>>]

\* One request to a backend (`client.<method>(..).await?`): an error of the
\* backend is returned as it is.
BackendCall(backend, method, model_id, response) ==
    [result |-> IF response = "error" THEN <<"Err", backend>> ELSE <<"Ok", backend>>,
     backend_calls |-> <<[backend |-> backend, method |-> method, model_id |-> model_id]>>]

\* GenerationClient::tokenize. With TGIS, responses.swap_remove(0) panics when
\* the response has no element.
tokenize(inner, model_id, response) ==
    IF inner = "Tgis"
    THEN LET call == BackendCall("Tgis", "tokenize", model_id, response) IN
         IF response = "empty"
         THEN [call EXCEPT !.result = <<"panic", "Tgis">>]
         ELSE call
    ELSE IF inner = "Nlp"
    THEN BackendCall("Nlp", "tokenization_task_predict", model_id, response)
    ELSE ModelNotFound(model_id)

\* GenerationClient::generate.
generate(inner, model_id, response) ==
    IF inner = "Tgis"
    THEN BackendCall("Tgis", "generate", model_id, response)
    ELSE IF inner = "Nlp"
    THEN BackendCall("Nlp", "text_generation_task_predict", model_id, response)
    ELSE ModelNotFound(model_id)

generate_stream_unconfigured_tgis(inner, model_id, response) ==
    IF inner = "Nlp"
    THEN BackendCall("Nlp", "server_streaming_text_generation_task_predict", model_id, response)
    ELSE BackendCall("Tgis", "generate_stream", model_id, response)

\* GenerationClient::generate_stream.
generate_stream(inner, model_id, response) ==
    IF inner = "Tgis"
    THEN BackendCall("Tgis", "generate_stream", model_id, response)
    ELSE IF inner = "Nlp"
    THEN BackendCall("Nlp", "server_streaming_text_generation_task_predict", model_id, response)
    ELSE ModelNotFound(model_id)

\* HTTP statuses of a health response: 200 OK, client errors, server errors.
HttpStatuses == {200, 400, 401, 403, 404, 500, 502, 503}

\* Bodies of a health response: the health_status and reason fields of the
\* JSON object (each may be absent), or an error message (possibly empty).
HttpBodies ==
    [health_status : {None, "HEALTHY", "UNHEALTHY", "UNKNOWN", "meaningless status"},
     reason : {None, "some reason"},
     message : {None, "some error message", "service not found"}]

\* The description of an HTTP error status with the body received, as
\* reqwest words it: "HTTP status <class> (<status>) for url (..)[: <body>]".
HttpErrorReason(class, status, body) ==
    <<class, status, body.message>>

\* Option<String> of a JSON field: no reason, or the reason given.
BodyReason(body) == IF body.reason = None THEN <<>> ELSE <<body.reason>>

\* HttpClient::http_response_to_health_check_result.
http_response_to_health_check_result(status, body) ==
    CASE status = 200 ->
            IF body.health_status \in {"UNHEALTHY", "UNKNOWN"}
            THEN [health_status |-> body.health_status,
                  response_code |-> <<"HTTP", status>>,
                  reason |-> BodyReason(body)]
            ELSE [health_status |-> "HEALTHY",
                  response_code |-> <<"HTTP", status>>,
                  reason |-> <<>>]
      [] status \in 500..599 ->
            [health_status |-> "UNHEALTHY",
             response_code |-> <<"HTTP", status>>,
             reason |-> HttpErrorReason("server error", status, body)]
      [] status \in 400..499 ->
            [health_status |-> "UNKNOWN",
             response_code |-> <<"HTTP", status>>,
             reason |-> HttpErrorReason("client error", status, body)]

HttpBody(health_status, reason, message) ==
    [health_status |-> health_status, reason |-> reason, message |-> message]

HttpExpected(health_status, status, reason) ==
    [health_status |-> health_status, response_code |-> <<"HTTP", status>>, reason |-> reason]

http_health_check_responses_404_unhealthy ==
    {[status |-> 404, body |-> HttpBody(None, None, "service not found"),
      expected |-> HttpExpected("UNHEALTHY", 404,
                     <<"client error", 404, "service not found">>)]}

\* test_http_health_check_responses: every response the test makes, with
\* the result it asserts.
http_health_check_responses ==
    {[status |-> 200, body |-> HttpBody(None, None, None),
      expected |-> HttpExpected("HEALTHY", 200, <<>>)],
     [status |-> 200, body |-> HttpBody("HEALTHY", None, None),
      expected |-> HttpExpected("HEALTHY", 200, <<>>)],
     [status |-> 200, body |-> HttpBody("meaningless status", None, None),
      expected |-> HttpExpected("HEALTHY", 200, <<>>)],
     [status |-> 200, body |-> HttpBody("HEALTHY", "some reason", None),
      expected |-> HttpExpected("HEALTHY", 200, <<>>)],
     [status |-> 200, body |-> HttpBody("UNHEALTHY", None, None),
      expected |-> HttpExpected("UNHEALTHY", 200, <<>>)],
     [status |-> 200, body |-> HttpBody("UNKNOWN", None, None),
      expected |-> HttpExpected("UNKNOWN", 200, <<>>)],
     [status |-> 200, body |-> HttpBody("UNHEALTHY", "some reason", None),
      expected |-> HttpExpected("UNHEALTHY", 200, <<"some reason">>)],
     [status |-> 200, body |-> HttpBody("UNKNOWN", "some reason", None),
      expected |-> HttpExpected("UNKNOWN", 200, <<"some reason">>)],
     [status |-> 503, body |-> HttpBody(None, None, "some error message"),
      expected |-> HttpExpected("UNHEALTHY", 503,
                     <<"server error", 503, "some error message">>)],
     [status |-> 404, body |-> HttpBody(None, None, "service not found"),
      expected |-> HttpExpected("UNKNOWN", 404,
                     <<"client error", 404, "service not found">>)],
     [status |-> 500, body |-> HttpBody(None, None, None),
      expected |-> HttpExpected("UNHEALTHY", 500,
                     <<"server error", 500, None>>)],
     [status |-> 400, body |-> HttpBody(None, None, None),
      expected |-> HttpExpected("UNKNOWN", 400,
                     <<"client error", 400, None>>)]}

\* ServingStatus of a gRPC HealthCheckResponse.
ServingStatuses == {"UNKNOWN", "SERVING", "NOT_SERVING", "SERVICE_UNKNOWN"}

\* tonic::Code of a failed call: every code but Ok.
GrpcErrorCodes ==
    {"Cancelled", "Unknown", "InvalidArgument", "DeadlineExceeded", "NotFound",
     "AlreadyExists", "PermissionDenied", "ResourceExhausted", "FailedPrecondition",
     "Aborted", "OutOfRange", "Unimplemented", "Internal", "Unavailable", "DataLoss",
     "Unauthenticated"}

\* Result<tonic::Response<HealthCheckResponse>, tonic::Status>.
GrpcOk(status) == [ok |-> TRUE, status |-> status, code |-> "Ok", message |-> None]

GrpcErr(code, message) == [ok |-> FALSE, status |-> None, code |-> code, message |-> message]

GrpcResponses ==
    {GrpcOk(status) : status \in ServingStatuses}
        \cup {GrpcErr(code, "some error message") : code \in GrpcErrorCodes}

\* HealthCheckResult::from(Result<Response<HealthCheckResponse>, Status>).
HealthCheckResult_from(response) ==
    IF response.ok
    THEN [health_status |-> CASE response.status = "SERVING" -> "HEALTHY"
                              [] response.status = "NOT_SERVING" -> "UNHEALTHY"
                              [] response.status \in {"UNKNOWN", "SERVICE_UNKNOWN"} -> "UNKNOWN",
          response_code |-> <<"gRPC", "Ok">>,
          reason |-> IF response.status = "SERVING" THEN <<>>
                     ELSE <<"from gRPC health check serving status", response.status>>]
    ELSE [health_status |-> "UNKNOWN",
          response_code |-> <<"gRPC", response.code>>,
          reason |-> <<"gRPC health check failed", response.code, response.message>>]

\* errors::grpc_to_http_code: the HTTP status that stands for a tonic::Code,
\* kept as the code it stands for.
grpc_to_http_code(code) == <<"HTTP status of", code>>

NlpClient_health_of_status(response) ==
    [status |-> IF response.code = "Ok" THEN "HEALTHY" ELSE "UNHEALTHY",
     code |-> grpc_to_http_code(response.code),
     reason |-> None]

\* NlpClient::health: the call's success, InvalidArgument and NotFound count
\* as Code::Ok; the status is Healthy for Code::Ok and Unhealthy otherwise.
NlpClient_health(response) ==
    LET code == IF response.ok THEN "Ok"
                ELSE IF response.code \in {"InvalidArgument", "NotFound"} THEN "Ok"
                ELSE response.code
    IN [status |-> IF code = "Ok" THEN "HEALTHY" ELSE "UNHEALTHY",
        code |-> grpc_to_http_code(code),
        reason |-> None]

GrpcExpected(health_status, code, reason) ==
    [health_status |-> health_status, response_code |-> <<"gRPC", code>>, reason |-> reason]

grpc_health_check_responses_unavailable_unhealthy ==
    {[response |-> GrpcErr("Unavailable", "some error message"),
      expected |-> GrpcExpected("UNHEALTHY", "Unavailable",
                     <<"gRPC health check failed", "Unavailable", "some error message">>)]}

\* test_grpc_health_check_responses: every response the test makes, with
\* the result it asserts.
grpc_health_check_responses ==
    {[response |-> GrpcOk("SERVING"),
      expected |-> GrpcExpected("HEALTHY", "Ok", <<>>)],
     [response |-> GrpcOk("NOT_SERVING"),
      expected |-> GrpcExpected("UNHEALTHY", "Ok",
                     <<"from gRPC health check serving status", "NOT_SERVING">>)],
     [response |-> GrpcOk("UNKNOWN"),
      expected |-> GrpcExpected("UNKNOWN", "Ok",
                     <<"from gRPC health check serving status", "UNKNOWN">>)],
     [response |-> GrpcOk("SERVICE_UNKNOWN"),
      expected |-> GrpcExpected("UNKNOWN", "Ok",
                     <<"from gRPC health check serving status", "SERVICE_UNKNOWN">>)]}
    \cup {[response |-> GrpcErr(code, "some error message"),
           expected |-> GrpcExpected("UNKNOWN", code,
                          <<"gRPC health check failed", code, "some error message">>)] :
          code \in {"InvalidArgument", "Internal", "NotFound", "Unimplemented",
                    "Unauthenticated", "PermissionDenied", "Unavailable"}}

\* ------------------------------------------------------------ the tracker
ClassificationResult_first_token(generated_tokens, start, end, input_token_count) ==
    [generated_text |-> IF generated_tokens = <<>> THEN <<>> ELSE Head(generated_tokens),
     input_token_count |-> input_token_count,
     start_index |-> start, processed_index |-> end, output |-> <<>>]

\* result.chunk.results.into_iter().map(|t| t.text).collect(): the token
\* texts joined in order.
RECURSIVE CollectText(_)
CollectText(tokens) ==
    IF tokens = <<>> THEN <<>> ELSE Head(tokens) \o CollectText(Tail(tokens))

ClassificationResult_default_count(generated_tokens, start, end, input_token_count) ==
    [generated_text |-> CollectText(generated_tokens),
     input_token_count |-> 0,
     start_index |-> start, processed_index |-> end, output |-> <<>>]

\* ClassifiedGeneratedTextStreamResult built from a DetectionResult.
ClassificationResult(generated_tokens, start, end, input_token_count) ==
    [generated_text |-> CollectText(generated_tokens),
     input_token_count |-> input_token_count,
     start_index |-> start, processed_index |-> end, output |-> <<>>]

\* Order of BTreeMap keys: tuples compare lexicographically.
KeyLess(a, b) == a[1] < b[1] \/ (a[1] = b[1] /\ a[2] < b[2])

add_detection_result_count_annotated(tracker, start, end, new_detection_results, classified_stream_result) ==
    LET key == <<start, end>> IN
    IF key \in DOMAIN tracker
    THEN [tracker EXCEPT ![key] =
            [result |-> [tracker[key].result EXCEPT !.output = new_detection_results],
             num_detectors |-> IF new_detection_results = <<>>
                               THEN tracker[key].num_detectors
                               ELSE tracker[key].num_detectors + 1]]
    ELSE [k \in DOMAIN tracker \cup {key} |->
            IF k = key
            THEN [result |-> [classified_stream_result EXCEPT !.output = new_detection_results],
                  num_detectors |-> 1]
            ELSE tracker[k]]

add_detection_result_from_zero(tracker, start, end, new_detection_results, classified_stream_result) ==
    LET key == <<start, end>> IN
    IF key \in DOMAIN tracker
    THEN [tracker EXCEPT ![key] =
            [result |-> [tracker[key].result EXCEPT !.output = new_detection_results],
             num_detectors |-> tracker[key].num_detectors + 1]]
    ELSE [k \in DOMAIN tracker \cup {key} |->
            IF k = key
            THEN [result |-> [classified_stream_result EXCEPT !.output = new_detection_results],
                  num_detectors |-> 0]
            ELSE tracker[k]]

add_detection_result_replace(tracker, start, end, new_detection_results, classified_stream_result) ==
    LET key == <<start, end>> IN
    [k \in DOMAIN tracker \cup {key} |->
        IF k = key
        THEN [result |-> [classified_stream_result EXCEPT !.output = new_detection_results],
              num_detectors |-> IF key \in DOMAIN tracker
                                THEN tracker[key].num_detectors + 1
                                ELSE 1]
        ELSE tracker[k]]

\* add_detection_result: an existing entry gets the new detections as its
\* output and its count raised by one; a new entry starts with count 1.
add_detection_result(tracker, start, end, new_detection_results, classified_stream_result) ==
    LET key == <<start, end>> IN
    IF key \in DOMAIN tracker
    THEN [tracker EXCEPT ![key] =
            [result |-> [tracker[key].result EXCEPT !.output = new_detection_results],
             num_detectors |-> tracker[key].num_detectors + 1]]
    ELSE [k \in DOMAIN tracker \cup {key} |->
            IF k = key
            THEN [result |-> [classified_stream_result EXCEPT !.output = new_detection_results],
                  num_detectors |-> 1]
            ELSE tracker[k]]

\* BTreeMap::first_key_value: the smallest key.
first_key_value(tracker) ==
    CHOOSE k \in DOMAIN tracker : \A o \in DOMAIN tracker : o = k \/ KeyLess(k, o)

find_first_by_end(tracker, start) ==
    LET m == {k \in DOMAIN tracker : k[2] = start} IN
    IF m = {} THEN NoSpan
    ELSE CHOOSE k \in m : \A o \in m : o = k \/ KeyLess(k, o)

\* find_first: the first key, in map order, whose start is `start`.
find_first(tracker, start) ==
    LET m == {k \in DOMAIN tracker : k[1] = start} IN
    IF m = {} THEN NoSpan
    ELSE CHOOSE k \in m : \A o \in m : o = k \/ KeyLess(k, o)

AllResponded_at_most(num_detectors, total) == num_detectors <= total

\* num_detectors.to_owned() == total_detectors
AllResponded(num_detectors, total) == num_detectors = total

\* The one readiness check made after a verdict is recorded: the span to
\* send, or NoSpan.
ReadySpan(tracker, watermark, total) ==
    IF watermark = 0 /\ DOMAIN tracker # {}
    THEN LET span == first_key_value(tracker) IN
         IF AllResponded(tracker[span].num_detectors, total) THEN span ELSE NoSpan
    ELSE IF watermark > 0
    THEN LET span == find_first(tracker, watermark) IN
         IF span # NoSpan /\ AllResponded(tracker[span].num_detectors, total)
         THEN span ELSE NoSpan
    ELSE NoSpan

WatermarkAfter_start(span) == span[1]

\* processed_index = span.1: the watermark after the span has been sent.
WatermarkAfter(span) == span[2]

\* ---------------------------------------------------------------- actions
AfterStreams_recv(idx, total) == "recv"

\* for (detector_id, mut stream) in detection_streams: the task is at the
\* recv of stream idx, or has returned when there is no such stream.
AfterStreams(idx, total) == IF idx > total THEN "done" ELSE "recv"

\* process() called with one of the given generation buffers and
\* 0..MaxDetectors streams; the output channel has the given capacity.
InitWith(buffers, capacity) ==
    /\ generations \in buffers
    /\ total_detectors \in 0..MaxDetectors
    /\ stream_idx = 1
    /\ detection_tracker = <<>>
    /\ processed_index = 0
    /\ pc = AfterStreams(1, total_detectors)
    /\ sending = NoSpan
    /\ result_tx = <<>>
    /\ received = <<>>
    /\ emitted = <<>>
    /\ health_check = NoCheck
    /\ generation_client = not_configured
    /\ detection_streams = [d \in 1..total_detectors |-> [queue |-> <<>>, open |-> TRUE]]
    /\ result_rx = [capacity |-> capacity, taken |-> 0, open |-> TRUE]
    /\ generations_lock = "free"

\* process() is called with the generation buffer holding its first element
\* (as get_dummy_streaming_generation builds it) and 0..MaxDetectors streams.
Init ==
    InitWith({<<[input_token_count |-> n]>> : n \in InputTokenCounts}, ChannelCapacity)

\* The loop body after the lock on generations is had: read generations[0]
\* (the task panics when the lock is poisoned or there is no element), record
\* the verdict and make the readiness check; the task goes on to the send or
\* back to recv.
RecordVerdict(span, tokens, detections) ==
    /\ IF generations_lock = "poisoned" \/ generations = <<>>
       THEN /\ pc' = "panicked"
            /\ UNCHANGED <<detection_tracker, sending>>
       ELSE LET tracker == add_detection_result(detection_tracker, span[1], span[2],
                               detections,
                               ClassificationResult(tokens, span[1], span[2],
                                   generations[1].input_token_count))
                ready == ReadySpan(tracker, processed_index, total_detectors)
            IN /\ detection_tracker' = tracker
               /\ sending' = ready
               /\ pc' = IF ready = NoSpan THEN "recv" ELSE "send"
    /\ UNCHANGED <<client_vars, shared_vars>>
    /\ UNCHANGED <<generations, total_detectors, stream_idx, processed_index,
                   result_tx, emitted>>

\* The loop body for one DetectionResult of the current stream, the lock on
\* generations being free.
ProcessVerdict(span, tokens, detections) ==
    /\ received' = Append(received,
           [detector |-> stream_idx, span |-> span, tokens |-> tokens,
            detections |-> detections])
    /\ RecordVerdict(span, tokens, detections)

\* The current stream delivers a verdict: any span, clean or annotated.
RecvVerdict ==
    /\ pc = "recv"
    /\ stream_idx <= total_detectors
    /\ Len(received) < MaxVerdicts
    /\ UNCHANGED detection_streams
    /\ \E span \in Spans, tokens \in PlainChunk, detections \in Detections(stream_idx) :
          ProcessVerdict(span, tokens, detections)

\* The events in the output channel: sent and not yet taken.
Buffered == Len(result_tx) - result_rx.taken

CanSend_beyond_capacity(buffered, capacity) == buffered <= capacity

\* A bounded mpsc channel takes a value while it holds fewer than its capacity.
CanSend(buffered, capacity) == buffered < capacity

\* let _ = result_tx.send(classified_result.clone()).await completes (it
\* waits for room while the receiver is there, and fails at once, unnoticed,
\* when the receiver is gone), then processed_index = span.1.
SendResult ==
    /\ pc = "send"
    /\ result_rx.open => CanSend(Buffered, result_rx.capacity)
    /\ result_tx' = IF result_rx.open
                    THEN Append(result_tx, detection_tracker[sending].result)
                    ELSE result_tx
    /\ emitted' = Append(emitted,
           [span |-> sending,
            num_detectors |-> detection_tracker[sending].num_detectors,
            watermark |-> processed_index,
            at |-> Len(received)])
    /\ processed_index' = WatermarkAfter(sending)
    /\ sending' = NoSpan
    /\ pc' = "recv"
    /\ UNCHANGED <<generations, total_detectors, stream_idx, detection_tracker, received>>
    /\ UNCHANGED <<client_vars, detection_streams, shared_vars>>

\* stream.recv() yields None: the for loop moves to the next stream, and the
\* task ends after the last one.
StreamClosed ==
    /\ pc = "recv"
    /\ stream_idx <= total_detectors
    /\ stream_idx' = stream_idx + 1
    /\ pc' = AfterStreams(stream_idx', total_detectors)
    /\ detection_streams' = [detection_streams EXCEPT ![stream_idx].open = FALSE]
    /\ UNCHANGED <<client_vars, shared_vars>>
    /\ UNCHANGED <<generations, total_detectors, detection_tracker, processed_index,
                   sending, result_tx, received, emitted>>

Next == RecvVerdict \/ SendResult \/ StreamClosed

Spec == Init /\ [][Next]_vars

\* ------------------------------------------------- well-formed requests
\* The detectors of a request that keeps the callers' contract: every span is
\* non-empty and no detector reports a span twice.  The order in which a
\* detector reports its spans stays free.
RecvRequestVerdict ==
    /\ pc = "recv"
    /\ stream_idx <= total_detectors
    /\ Len(received) < MaxRequestVerdicts
    /\ UNCHANGED detection_streams
    /\ \E span \in {k \in Spans : k[1] < k[2]}, tokens \in PlainChunk,
          detections \in Detections(stream_idx) :
          /\ \A i \in 1..Len(received) :
                ~(received[i].detector = stream_idx /\ received[i].span = span)
          /\ ProcessVerdict(span, tokens, detections)

\* ------------------------------------------------------- chunk texts
\* The current stream delivers a verdict for a non-empty span whose chunk is
\* any of ChunkTokens.
RecvTextVerdict ==
    /\ pc = "recv"
    /\ stream_idx <= total_detectors
    /\ Len(received) < MaxTextVerdicts
    /\ UNCHANGED detection_streams
    /\ \E span \in {k \in Spans : k[1] < k[2]}, tokens \in ChunkTokens,
          detections \in Detections(stream_idx) :
          ProcessVerdict(span, tokens, detections)

NextText == RecvTextVerdict \/ SendResult \/ StreamClosed

SpecText == Init /\ [][NextText]_vars

\* ------------------------------------------------ the output consumer
\* process() called as in Init, the output channel's capacity scaled down.
InitSmallChannel ==
    InitWith({<<[input_token_count |-> n]>> : n \in InputTokenCounts}, SmallCapacity)

\* The current stream delivers a verdict for a non-empty span.
RecvConsumerVerdict ==
    /\ pc = "recv"
    /\ stream_idx <= total_detectors
    /\ Len(received) < MaxConsumerVerdicts
    /\ UNCHANGED detection_streams
    /\ \E span \in {k \in Spans : k[1] < k[2]}, tokens \in PlainChunk,
          detections \in Detections(stream_idx) :
          ProcessVerdict(span, tokens, detections)

\* The consumer takes the oldest event out of the output channel.
ConsumerRecv ==
    /\ result_rx.open
    /\ Buffered > 0
    /\ result_rx' = [result_rx EXCEPT !.taken = @ + 1]
    /\ UNCHANGED <<generations, total_detectors, stream_idx, detection_tracker,
                   processed_index, pc, sending, result_tx, received, emitted,
                   client_vars, detection_streams, generations_lock>>

\* The consumer drops the receiver of the output channel (the request is
\* cancelled).
ConsumerDrop ==
    /\ result_rx.open
    /\ result_rx' = [result_rx EXCEPT !.open = FALSE]
    /\ UNCHANGED <<generations, total_detectors, stream_idx, detection_tracker,
                   processed_index, pc, sending, result_tx, received, emitted,
                   client_vars, detection_streams, generations_lock>>

NextConsumer ==
    RecvConsumerVerdict \/ SendResult \/ StreamClosed \/ ConsumerRecv \/ ConsumerDrop

SpecConsumer == InitSmallChannel /\ [][NextConsumer]_vars

\* ------------------------------------------------ the generation buffer
\* The contents the shared generation buffer can have, as far as the task
\* reads it: empty, or a first element with an input_token_count of 0 or 1.
GenerationBuffers ==
    {<<>>} \cup {<<[input_token_count |-> n]>> : n \in {0, 1}}

\* process() called with any generation buffer, the empty one included.
InitGenerations == InitWith(GenerationBuffers, ChannelCapacity)

\* Another task takes the write lock on generations.
WriterLock ==
    /\ generations_lock = "free"
    /\ generations_lock' = "write"
    /\ UNCHANGED <<generations, total_detectors, stream_idx, detection_tracker,
                   processed_index, pc, sending, result_tx, received, emitted,
                   client_vars, detection_streams, result_rx>>

\* The writer changes the buffer and releases the lock.
WriterWrite ==
    /\ generations_lock = "write"
    /\ generations' \in GenerationBuffers
    /\ generations_lock' = "free"
    /\ UNCHANGED <<total_detectors, stream_idx, detection_tracker,
                   processed_index, pc, sending, result_tx, received, emitted,
                   client_vars, detection_streams, result_rx>>

\* The writer panics holding the lock: the lock is poisoned.
WriterPanic ==
    /\ generations_lock = "write"
    /\ generations_lock' = "poisoned"
    /\ UNCHANGED <<generations, total_detectors, stream_idx, detection_tracker,
                   processed_index, pc, sending, result_tx, received, emitted,
                   client_vars, detection_streams, result_rx>>

\* The current stream delivers a verdict without detections for a non-empty
\* span; the task goes on to generations.read(), which waits while a writer
\* holds the lock.
RecvLockedVerdict ==
    /\ pc = "recv"
    /\ stream_idx <= total_detectors
    /\ Len(received) < MaxMetaVerdicts
    /\ UNCHANGED detection_streams
    /\ \E span \in {k \in Spans : k[1] < k[2]}, tokens \in PlainChunk,
          detections \in {<<>>} :
          /\ received' = Append(received,
                 [detector |-> stream_idx, span |-> span, tokens |-> tokens,
                  detections |-> detections])
          /\ IF generations_lock = "write"
             THEN /\ pc' = "lock"
                  /\ UNCHANGED <<generations, total_detectors, stream_idx,
                                 detection_tracker, processed_index, sending,
                                 result_tx, emitted, client_vars, shared_vars>>
             ELSE RecordVerdict(span, tokens, detections)

\* generations.read() returns once no writer holds the lock; the loop body
\* goes on with the verdict received last.
AcquireRead ==
    /\ pc = "lock"
    /\ generations_lock # "write"
    /\ UNCHANGED <<received, detection_streams>>
    /\ LET result == received[Len(received)]
       IN RecordVerdict(result.span, result.tokens, result.detections)

NextGenerations ==
    \/ RecvLockedVerdict
    \/ AcquireRead
    \/ SendResult
    \/ StreamClosed
    \/ WriterLock
    \/ WriterWrite
    \/ WriterPanic

SpecGenerations == InitGenerations /\ [][NextGenerations]_vars

\* --------------------------------------------------- indices on the wire
\* High 32-bit words of the 64-bit indices a chunk can carry: a negative
\* index, an index below 2^32, an index of 2^32 or more.
HighWords == {-1, 0, 1}

\* chunk.start_index and chunk.processed_index as the chunker sends them:
\* signed 64-bit integers, written as their high word (two's complement) and
\* their low word, of value hi * 2^32 + lo.
WireIndices == [hi : HighWords, lo : Indices]

as_u32_clamped(index) == IF index.hi = 0 THEN index.lo ELSE 0

\* `index as u32`: the cast keeps the low 32 bits.
as_u32(index) == index.lo

\* The current stream delivers a verdict for a chunk that starts before it
\* ends; the tracker key is made of the chunk's indices cast to u32.
RecvWireVerdict ==
    /\ pc = "recv"
    /\ stream_idx <= total_detectors
    /\ Len(received) < MaxWireVerdicts
    /\ UNCHANGED detection_streams
    /\ \E start_index \in WireIndices, processed_index_ \in WireIndices,
          tokens \in PlainChunk, detections \in {<<>>} :
          LET span == <<as_u32(start_index), as_u32(processed_index_)>> IN
          /\ start_index.hi <= processed_index_.hi
          /\ span[1] < span[2]
          /\ received' = Append(received,
                 [detector |-> stream_idx, span |-> span, tokens |-> tokens,
                  detections |-> detections,
                  chunk |-> [start_index |-> start_index,
                             processed_index |-> processed_index_]])
          /\ RecordVerdict(span, tokens, detections)

NextWire == RecvWireVerdict \/ SendResult \/ StreamClosed

SpecWire == Init /\ [][NextWire]_vars

\* --------------------------------------------------- detector channels
\* The number of verdicts sent so far on all detector channels.
RECURSIVE QueuedUpTo(_)
QueuedUpTo(d) ==
    IF d = 0 THEN 0 ELSE Len(detection_streams[d].queue) + QueuedUpTo(d - 1)

NumSent == Len(received) + QueuedUpTo(total_detectors)

\* Detector d sends a verdict for a non-empty span on its channel.
DetectorSend(d) ==
    /\ detection_streams[d].open
    /\ NumSent < MaxChannelVerdicts
    /\ \E span \in {k \in Spans : k[1] < k[2]}, tokens \in PlainChunk,
          detections \in Detections(d) :
          detection_streams' = [detection_streams EXCEPT ![d].queue =
              Append(@, [span |-> span, tokens |-> tokens, detections |-> detections])]
    /\ UNCHANGED <<generations, total_detectors, stream_idx, detection_tracker,
                   processed_index, pc, sending, result_tx, received, emitted, client_vars,
                   result_rx, generations_lock>>

\* Detector d drops its sender: its channel closes once it is drained.
DetectorClose(d) ==
    /\ detection_streams[d].open
    /\ detection_streams' = [detection_streams EXCEPT ![d].open = FALSE]
    /\ UNCHANGED <<generations, total_detectors, stream_idx, detection_tracker,
                   processed_index, pc, sending, result_tx, received, emitted, client_vars,
                   result_rx, generations_lock>>

\* stream.recv().await returns Some(result): the head of the current
\* stream's channel; the streams after it are not looked at.
RecvChannelVerdict ==
    /\ pc = "recv"
    /\ stream_idx <= total_detectors
    /\ detection_streams[stream_idx].queue # <<>>
    /\ LET result == Head(detection_streams[stream_idx].queue)
       IN /\ detection_streams' = [detection_streams EXCEPT ![stream_idx].queue = Tail(@)]
          /\ ProcessVerdict(result.span, result.tokens, result.detections)

\* stream.recv().await returns None: the current stream's channel is empty
\* and its sender is gone.
ChannelClosed ==
    /\ stream_idx <= total_detectors
    /\ detection_streams[stream_idx].queue = <<>>
    /\ ~detection_streams[stream_idx].open
    /\ StreamClosed

NextFanIn ==
    \/ \E d \in 1..total_detectors : DetectorSend(d)
    \/ \E d \in 1..total_detectors : DetectorClose(d)
    \/ RecvChannelVerdict
    \/ SendResult
    \/ ChannelClosed

SpecFanIn == Init /\ [][NextFanIn]_vars

\* The spawned task is scheduled whenever it can take a step; the detectors
\* send and close when they like.
FairSpecFanIn ==
    /\ Init
    /\ [][NextFanIn]_vars
    /\ WF_vars(RecvChannelVerdict)
    /\ WF_vars(SendResult)
    /\ WF_vars(ChannelClosed)

\* ------------------------------------------------------- health checks
\* A client makes an HTTP health check and turns the response into a
\* HealthCheckResult.
HttpHealthCheck ==
    /\ \E status \in HttpStatuses, body \in HttpBodies :
          health_check' = [kind |-> "http", status |-> status, body |-> body,
                           result |-> http_response_to_health_check_result(status, body)]
    /\ UNCHANGED <<generations, total_detectors, stream_idx, detection_tracker,
                   processed_index, pc, sending, result_tx, received, emitted,
                   detection_streams, result_rx, generation_client, generations_lock>>

\* A client makes a gRPC health check and turns the response into a
\* HealthCheckResult.
GrpcHealthCheck ==
    /\ \E response \in GrpcResponses :
          health_check' = [kind |-> "grpc", response |-> response,
                           result |-> HealthCheckResult_from(response)]
    /\ UNCHANGED <<generations, total_detectors, stream_idx, detection_tracker,
                   processed_index, pc, sending, result_tx, received, emitted,
                   detection_streams, result_rx, generation_client, generations_lock>>

NextHealth == HttpHealthCheck \/ GrpcHealthCheck

SpecHealth == Init /\ [][NextHealth]_vars

\* The NLP client makes its health check: the health RPC answers and
\* NlpClient::health makes a HealthCheckResult of the answer.
NlpHealthCheck ==
    /\ \E response \in GrpcResponses :
          health_check' = [kind |-> "nlp", response |-> response,
                           result |-> NlpClient_health(response)]
    /\ UNCHANGED <<generations, total_detectors, stream_idx, detection_tracker,
                   processed_index, pc, sending, result_tx, received, emitted,
                   detection_streams, result_rx, generation_client, generations_lock>>

\* The health checks of all the clients, the NLP client among them.
NextNlpHealth == NlpHealthCheck \/ HttpHealthCheck \/ GrpcHealthCheck

SpecNlpHealth == Init /\ [][NextNlpHealth]_vars

\* ------------------------------------------------------- generation client
\* What no call on the generation client changes.
engine_vars == <<generations, total_detectors, stream_idx, detection_tracker,
                 processed_index, pc, sending, result_tx, received, emitted,
                 health_check, detection_streams, result_rx, generations_lock>>

\* The orchestrator builds its generation client.
BuildTgis == generation_client' = tgis /\ UNCHANGED engine_vars

BuildNlp == generation_client' = nlp /\ UNCHANGED engine_vars

BuildNotConfigured == generation_client' = not_configured /\ UNCHANGED engine_vars

\* The client after one call of `method`, whose outcome is `outcome`.
AfterCall(client, method, model_id, outcome) ==
    [client EXCEPT
        !.calls = Append(@, [method |-> method, model_id |-> model_id,
                             result |-> outcome.result]),
        !.backend_calls = @ \o outcome.backend_calls]

\* A caller calls tokenize.
Tokenize ==
    /\ Len(generation_client.calls) < MaxClientCalls
    /\ \E model_id \in ModelIds, response \in BackendResponses :
          generation_client' =
              AfterCall(generation_client, "tokenize", model_id,
                        tokenize(generation_client.inner, model_id, response))
    /\ UNCHANGED engine_vars

\* A caller calls generate.
Generate ==
    /\ Len(generation_client.calls) < MaxClientCalls
    /\ \E model_id \in ModelIds, response \in BackendResponses \ {"empty"} :
          generation_client' =
              AfterCall(generation_client, "generate", model_id,
                        generate(generation_client.inner, model_id, response))
    /\ UNCHANGED engine_vars

\* A caller calls generate_stream.
GenerateStream ==
    /\ Len(generation_client.calls) < MaxClientCalls
    /\ \E model_id \in ModelIds, response \in BackendResponses \ {"empty"} :
          generation_client' =
              AfterCall(generation_client, "generate_stream", model_id,
                        generate_stream(generation_client.inner, model_id, response))
    /\ UNCHANGED engine_vars

NextGenerationClient ==
    \/ BuildTgis \/ BuildNlp \/ BuildNotConfigured
    \/ Tokenize \/ Generate \/ GenerateStream

SpecGenerationClient == Init /\ [][NextGenerationClient]_vars

NextRequest == RecvRequestVerdict \/ SendResult \/ StreamClosed

SpecRequest == Init /\ [][NextRequest]_vars

\* ------------------------------------------------------- derived notions
\* The task has ended: every detector stream has returned None.
Terminated == pc = "done"

\* The spans for which some verdict has been received.
ReceivedSpans == {received[i].span : i \in 1..Len(received)}

\* The number of verdicts detector d has delivered for span among the first n.
Delivered(d, span, n) ==
    Cardinality({i \in 1..n : received[i].detector = d /\ received[i].span = span})

\* The verdict received last has been dealt with completely: the task is
\* back at recv or has returned.
AtRecv == pc \in {"recv", "done"}

\* -------------------------------------------------------------- claims
\* C1 (completeness gate): every span sent on the output channel has, at the
\* moment it is sent, a reported count equal to total_detectors; no span with
\* a smaller count is ever sent.
C1_CompletenessGate ==
    /\ pc = "send" =>
         /\ sending \in DOMAIN detection_tracker
         /\ detection_tracker[sending].num_detectors = total_detectors
    /\ \A i \in 1..Len(emitted) : emitted[i].num_detectors = total_detectors

\* C1 witness: with two detectors a span has been sent while another span of
\* the tracker is still short of reports.
C1_Witness ==
    /\ total_detectors = 2
    /\ Len(emitted) >= 1
    /\ \E k \in DOMAIN detection_tracker : detection_tracker[k].num_detectors < total_detectors

\* C2 (contiguity): the first span sent starts at 0 and every later span sent
\* starts where the span sent before it ends.
C2_Contiguity ==
    /\ Len(emitted) >= 1 => emitted[1].span[1] = 0
    /\ \A i \in 2..Len(emitted) : emitted[i].span[1] = emitted[i-1].span[2]

\* A request's spans as the chunker cuts them: non-empty, starting at 0, each
\* starting where another one ends, no two with the same start.
IsChain(S) ==
    /\ \A k \in S : k[1] < k[2]
    /\ \A k \in S : k[1] = 0 \/ \E o \in S : o[2] = k[1]
    /\ \A k, o \in S : k # o => k[1] # o[1]

\* Every span reported at all has been reported exactly once by each detector.
EachReportedOnce ==
    \A k \in ReceivedSpans : \A d \in 1..total_detectors :
        Delivered(d, k, Len(received)) = 1

\* C3 (ordering property): when the task has ended and every span of the
\* request has been reported once by every detector, the sequence sent is the
\* request's spans in increasing order, whatever the order of arrival was:
\* every span once, the first starting at 0, each next one starting where the
\* one before ends.
C3_Ordering ==
    (Terminated /\ IsChain(ReceivedSpans) /\ EachReportedOnce) =>
        /\ {emitted[i].span : i \in 1..Len(emitted)} = ReceivedSpans
        /\ Len(emitted) = Cardinality(ReceivedSpans)
        /\ Len(emitted) >= 1 => emitted[1].span[1] = 0
        /\ \A i \in 2..Len(emitted) : emitted[i].span[1] = emitted[i-1].span[2]

\* C4 (complete output): when the task has ended and every span of the request
\* has been reported once by every detector, every span has been sent.
C4_CompleteOutput ==
    (Terminated /\ IsChain(ReceivedSpans) /\ EachReportedOnce) =>
        \A k \in ReceivedSpans : \E i \in 1..Len(emitted) : emitted[i].span = k

\* seq holds every element of sub.
HoldsAll(seq, sub) ==
    \A j \in 1..Len(sub) : \E m \in 1..Len(seq) : seq[m] = sub[j]

\* C5 (annotation merge): a tracker record's annotation list holds the
\* annotations of every verdict recorded for its span, and the event sent for
\* a span holds the annotations of every verdict received for it until then.
C5_AnnotationMerge ==
    /\ \A k \in DOMAIN detection_tracker : \A i \in 1..Len(received) :
         received[i].span = k =>
            HoldsAll(detection_tracker[k].result.output, received[i].detections)
    /\ \A j \in 1..Len(emitted) : \A i \in 1..emitted[j].at :
         received[i].span = emitted[j].span =>
            HoldsAll(result_tx[j].output, received[i].detections)

\* C6 (emit-once): no span is sent twice.
C6_EmitOnce ==
    \A i, j \in 1..Len(emitted) : i # j => emitted[i].span # emitted[j].span

\* C7 (hold-back): a span is sent only when its start equals the watermark,
\* and never while a tracked span that starts before it is still unsent.
C7_HoldBack ==
    /\ \A i \in 1..Len(emitted) : emitted[i].span[1] = emitted[i].watermark
    /\ pc = "send" =>
         \A k \in DOMAIN detection_tracker :
            k[1] < sending[1] => \E i \in 1..Len(emitted) : emitted[i].span = k

\* C8 (clean verdict counts): recording a verdict with no annotations raises
\* its span's count by exactly one, or creates the record with count one.
C8_CleanVerdictCounts ==
    [][(/\ Len(received') = Len(received) + 1
        /\ received'[Len(received')].detections = <<>>
        /\ pc' # "panicked") =>
          LET k == received'[Len(received')].span IN
          /\ k \in DOMAIN detection_tracker'
          /\ detection_tracker'[k].num_detectors =
                IF k \in DOMAIN detection_tracker
                THEN detection_tracker[k].num_detectors + 1
                ELSE 1]_vars

\* C8 witness: with two detectors, a clean verdict was the second report of
\* its span, completed it, and the span was sent while processing it.
C8_Witness ==
    /\ total_detectors = 2
    /\ \E j \in 1..Len(emitted) :
         /\ received[emitted[j].at].detections = <<>>
         /\ received[emitted[j].at].span = emitted[j].span
         /\ \E i \in 1..(emitted[j].at - 1) : received[i].span = emitted[j].span

\* Verdict i has been processed completely.
Processed(i) == i < Len(received) \/ (i = Len(received) /\ AtRecv)

\* Span of verdict i was sent while verdict i was being processed.
SentOnOwnVerdict(i) ==
    \E j \in 1..Len(emitted) :
        emitted[j].span = received[i].span /\ emitted[j].at = i

\* No span has been reported twice.
NoRepeatedSpan ==
    \A i, j \in 1..Len(received) : i # j => received[i].span # received[j].span

\* C9 (single-detector pass-through), as claimed: with one detector every
\* span is sent while its own verdict is processed, in whatever order the
\* verdicts of the request's spans arrive.
C9_PassThrough ==
    (total_detectors = 1 /\ IsChain(ReceivedSpans) /\ NoRepeatedSpan) =>
        \A i \in 1..Len(received) : Processed(i) => SentOnOwnVerdict(i)

\* The verdicts arrived in span order: the first span starts at 0, each next
\* one starts where the one before ends, none is empty.
InSpanOrder ==
    \A i \in 1..Len(received) :
        /\ received[i].span[1] < received[i].span[2]
        /\ received[i].span[1] = IF i = 1 THEN 0 ELSE received[i-1].span[2]

\* C9 amended: with one detector and verdicts arriving in span order, every
\* span is sent while its own verdict is processed.
C9_PassThroughInOrder ==
    (total_detectors = 1 /\ InSpanOrder) =>
        \A i \in 1..Len(received) : Processed(i) => SentOnOwnVerdict(i)

\* C9 witness: one detector, two verdicts in span order, both processed and
\* both spans sent.
C9_Witness ==
    /\ total_detectors = 1
    /\ InSpanOrder
    /\ Len(received) = 2
    /\ AtRecv
    /\ Len(emitted) = 2

\* C10 (every-detector gate), as claimed: whenever a span is sent, every
\* detector has delivered a verdict for it.
C10_EveryDetectorGate ==
    \A j \in 1..Len(emitted) : \A d \in 1..total_detectors :
        Delivered(d, emitted[j].span, emitted[j].at) >= 1

\* C10 amended: whenever a span is sent for which no detector has delivered
\* more than one verdict, every detector has delivered a verdict for it.
C10_GateWithoutRepeats ==
    \A j \in 1..Len(emitted) :
        (\A d \in 1..total_detectors :
            Delivered(d, emitted[j].span, emitted[j].at) <= 1) =>
        (\A d \in 1..total_detectors :
            Delivered(d, emitted[j].span, emitted[j].at) >= 1)

\* C10 witness: with two detectors a span has been sent after each of them
\* delivered exactly one verdict for it.
C10_Witness ==
    /\ total_detectors = 2
    /\ \E j \in 1..Len(emitted) : \A d \in 1..2 :
         Delivered(d, emitted[j].span, emitted[j].at) = 1

\* Span k of the tracker has been sent.
IsEmitted(k) == \E j \in 1..Len(emitted) : emitted[j].span = k

\* Span k of the tracker is the one the watermark lets through next: the
\* earliest span while nothing has been sent, the span starting at the
\* watermark afterwards.
Abuts(k) ==
    IF processed_index = 0
    THEN k = first_key_value(detection_tracker)
    ELSE k[1] = processed_index

\* Span k is unsent, reported by all detectors and next at the watermark.
Eligible(k) ==
    /\ ~IsEmitted(k)
    /\ detection_tracker[k].num_detectors = total_detectors
    /\ Abuts(k)

\* C11 (termination and silent drop): when all detector streams of a request
\* have ended the task has ended; the spans still short of reports have not
\* been sent, and no span that is complete and next at the watermark is left
\* unsent.
C11_TerminationDrop ==
    (Terminated /\ IsChain(ReceivedSpans)) =>
        /\ stream_idx > total_detectors
        /\ \A k \in DOMAIN detection_tracker :
             detection_tracker[k].num_detectors < total_detectors => ~IsEmitted(k)
        /\ \A k \in DOMAIN detection_tracker : ~Eligible(k)

\* C12 (no content-triggered failure): every verdict received, whatever its
\* span and annotations, is recorded (count one for a new span, one more for a
\* known span) and leaves the task running: it never panics.
C12_AlwaysAccepted ==
    /\ [](pc # "panicked")
    /\ [][Len(received') = Len(received) + 1 =>
            LET k == received'[Len(received')].span IN
            /\ pc' \in {"recv", "send"}
            /\ k \in DOMAIN detection_tracker'
            /\ detection_tracker'[k].num_detectors =
                  IF k \in DOMAIN detection_tracker
                  THEN detection_tracker[k].num_detectors + 1
                  ELSE 1]_vars

\* C12 witness: a verdict for a span that had already been sent was recorded
\* and the task is back at recv.
C12_Witness ==
    /\ pc = "recv"
    /\ \E j \in 1..Len(emitted) :
         detection_tracker[emitted[j].span].num_detectors > emitted[j].num_detectors

\* C16 (drain loop): whenever the task waits for the next verdict of a
\* request, no span of the tracker is unsent, complete and next at the
\* watermark.
C16_DrainLoop ==
    (AtRecv /\ IsChain(ReceivedSpans)) => \A k \in DOMAIN detection_tracker : ~Eligible(k)

C18_CountBound ==
    \A k \in DOMAIN detection_tracker :
        /\ detection_tracker[k].num_detectors >= 1
        /\ detection_tracker[k].num_detectors <= total_detectors

\* C18 amended: every record's count is at least 1, and at most
\* total_detectors when no detector has reported its span more than once.
C18_CountBoundNoRepeats ==
    \A k \in DOMAIN detection_tracker :
        /\ detection_tracker[k].num_detectors >= 1
        /\ \/ detection_tracker[k].num_detectors <= total_detectors
           \/ \E d \in 1..total_detectors : Delivered(d, k, Len(received)) > 1

\* C18 witness: with two detectors a record has reached count 2 with one
\* report from each, next to a record with count 1.
C18_Witness ==
    /\ total_detectors = 2
    /\ \E k \in DOMAIN detection_tracker :
         /\ detection_tracker[k].num_detectors = 2
         /\ \A d \in 1..2 : Delivered(d, k, Len(received)) = 1
    /\ \E k \in DOMAIN detection_tracker : detection_tracker[k].num_detectors = 1

\* C19 (eviction on emission): once a span has been sent the watermark is its
\* end and its record is gone: the tracker holds unsent spans only.
C19_Eviction ==
    AtRecv =>
        /\ Len(emitted) > 0 => processed_index = emitted[Len(emitted)].span[2]
        /\ \A j \in 1..Len(emitted) : emitted[j].span \notin DOMAIN detection_tracker

\* The verdicts for span k among the first n received.
VerdictsFor(k, n) == {i \in 1..n : received[i].span = k}

\* C13 (emitted event fields): the event sent for a span has the span's start
\* and end as start_index and processed_index; its generated_text is the
\* token texts of the span's chunk joined in order (where all verdicts for the
\* span carry the same chunk); with one detector its annotations are those of
\* the span's single verdict, and one verdict yields exactly one event.
C13_EventFields ==
    /\ Len(result_tx) = Len(emitted)
    /\ \A j \in 1..Len(emitted) :
         LET k == emitted[j].span
             ev == result_tx[j]
             vs == VerdictsFor(k, emitted[j].at)
         IN /\ ev.start_index = k[1]
            /\ ev.processed_index = k[2]
            /\ \A i \in vs :
                 (\A o \in vs : received[o].tokens = received[i].tokens) =>
                    /\ Len(ev.generated_text) =
                          IF received[i].tokens = <<>> THEN 0
                          ELSE IF Len(received[i].tokens) = 1
                          THEN Len(received[i].tokens[1])
                          ELSE Len(received[i].tokens[1]) + Len(received[i].tokens[2])
                    /\ \A t \in 1..Len(received[i].tokens) :
                         \A c \in 1..Len(received[i].tokens[t]) :
                            ev.generated_text[
                                (IF t = 1 THEN 0 ELSE Len(received[i].tokens[1])) + c]
                              = received[i].tokens[t][c]
            /\ total_detectors = 1 =>
                 /\ Cardinality(vs) = 1
                 /\ \A i \in vs : ev.output = received[i].detections
    /\ (total_detectors = 1 /\ Len(received) = 1 /\ AtRecv) => Len(result_tx) = 1

\* C13 witness: one detector, one verdict for a span starting at 0 with a
\* two-token chunk and one annotation, and its one event sent.
C13_Witness ==
    /\ total_detectors = 1
    /\ Len(received) = 1
    /\ AtRecv
    /\ received[1].span[1] = 0
    /\ received[1].span[2] > 0
    /\ Len(received[1].tokens) = 2
    /\ received[1].detections = <<1>>
    /\ Len(result_tx) = 1
    /\ result_tx[1].output = <<1>>

\* C14 (HTTP health mapping): a 200 response maps to HEALTHY with no reason
\* unless the body's health_status is UNHEALTHY or UNKNOWN (then that status,
\* with the body's reason if present); a 5xx response maps to UNHEALTHY and a
\* 4xx response to UNKNOWN, each with a reason describing the error;
\* response_code is the status received; and the result is the one
\* test_http_health_check_responses asserts for every response it makes.
C14_HttpHealthMapping ==
    health_check.kind = "http" =>
        LET status == health_check.status
            body == health_check.body
            result == health_check.result
        IN /\ result.response_code = <<"HTTP", status>>
           /\ status = 200 =>
                IF body.health_status \in {"UNHEALTHY", "UNKNOWN"}
                THEN /\ result.health_status = body.health_status
                     /\ body.reason # None => result.reason = <<body.reason>>
                     /\ body.reason = None => result.reason = <<>>
                ELSE /\ result.health_status = "HEALTHY"
                     /\ result.reason = <<>>
           /\ status \in 500..599 =>
                /\ result.health_status = "UNHEALTHY"
                /\ Len(result.reason) = 3
                /\ result.reason[1] = "server error"
                /\ result.reason[2] = status
           /\ status \in 400..499 =>
                /\ result.health_status = "UNKNOWN"
                /\ Len(result.reason) = 3
                /\ result.reason[1] = "client error"
                /\ result.reason[2] = status
           /\ \A t \in http_health_check_responses :
                (t.status = status /\ t.body = body) => result = t.expected

\* C14 witness: a 200 response whose body says UNHEALTHY with a reason has
\* been turned into an UNHEALTHY result carrying that reason.
C14_Witness ==
    /\ health_check.kind = "http"
    /\ health_check.status = 200
    /\ health_check.body.health_status = "UNHEALTHY"
    /\ health_check.body.reason = "some reason"
    /\ health_check.result.health_status = "UNHEALTHY"
    /\ health_check.result.reason = <<"some reason">>

\* C15 (gRPC health mapping): SERVING gives HEALTHY with no reason,
\* NOT_SERVING gives UNHEALTHY, UNKNOWN and SERVICE_UNKNOWN give UNKNOWN, each
\* with code Ok and a reason naming the serving status; an error status gives
\* UNKNOWN with the error's code and a reason containing the status; and the
\* result is the one test_grpc_health_check_responses asserts for every
\* response it makes.
C15_GrpcHealthMapping ==
    health_check.kind = "grpc" =>
        LET response == health_check.response
            result == health_check.result
        IN /\ response.ok =>
                /\ result.response_code = <<"gRPC", "Ok">>
                /\ response.status = "SERVING" =>
                     result.health_status = "HEALTHY" /\ result.reason = <<>>
                /\ response.status = "NOT_SERVING" => result.health_status = "UNHEALTHY"
                /\ response.status \in {"UNKNOWN", "SERVICE_UNKNOWN"} =>
                     result.health_status = "UNKNOWN"
                /\ response.status # "SERVING" =>
                     /\ Len(result.reason) = 2
                     /\ result.reason[2] = response.status
           /\ ~response.ok =>
                /\ result.health_status = "UNKNOWN"
                /\ result.response_code = <<"gRPC", response.code>>
                /\ Len(result.reason) = 3
                /\ result.reason[2] = response.code
                /\ result.reason[3] = response.message
           /\ \A t \in grpc_health_check_responses :
                t.response = response => result = t.expected

\* C15 witness: a failed call with code Unavailable has been turned into an
\* UNKNOWN result with that code.
C15_Witness ==
    /\ health_check.kind = "grpc"
    /\ ~health_check.response.ok
    /\ health_check.response.code = "Unavailable"
    /\ health_check.result.health_status = "UNKNOWN"
    /\ health_check.result.response_code = <<"gRPC", "Unavailable">>

\* The number of verdicts detector d has sent, and the number received from it.
NumReceivedFrom(d) == Cardinality({i \in 1..Len(received) : received[i].detector = d})

NumSentBy(d) == NumReceivedFrom(d) + Len(detection_streams[d].queue)

\* C20 (concurrent fan-in): a verdict available on any detector channel is
\* eventually received and processed, whatever the other channels do: once
\* detector d has sent n verdicts, n verdicts of d are eventually received.
C20_FanIn ==
    \A d \in 1..MaxDetectors : \A n \in 1..MaxChannelVerdicts :
        (d <= total_detectors /\ NumSentBy(d) >= n)
            ~> (d <= total_detectors /\ NumReceivedFrom(d) >= n)

\* C21 (backpressure), as claimed: the output channel never holds more than
\* its capacity, and while it is full no further verdict is received and no
\* event is sent.
C21_Backpressure ==
    /\ [](Buffered <= result_rx.capacity)
    /\ [][(result_rx.open /\ Buffered = result_rx.capacity) =>
             (received' = received /\ result_tx' = result_tx)]_vars

\* C21 amended: the output channel never holds more than its capacity, and
\* while it is full and the task is at its send, the task stays there: no
\* verdict is received, no event is sent and the watermark does not move.
C21_BackpressureAtSend ==
    /\ [](Buffered <= result_rx.capacity)
    /\ [][(pc = "send" /\ result_rx.open /\ Buffered = result_rx.capacity) =>
             /\ pc' = "send"
             /\ received' = received
             /\ result_tx' = result_tx
             /\ processed_index' = processed_index]_vars

\* C21 witness: the output channel is full and the task waits at its send
\* for the second span of the request.
C21_Witness ==
    /\ pc = "send"
    /\ result_rx.open
    /\ Buffered = result_rx.capacity
    /\ Len(received) >= 2
    /\ sending[1] > 0

\* C22 (cancellation): once the consumer has dropped the output receiver the
\* task receives no verdict, attempts no send and does not move the watermark.
C22_Cancellation ==
    [][~result_rx.open =>
          /\ received' = received
          /\ emitted' = emitted
          /\ processed_index' = processed_index]_vars

\* The output channel is closed from the sender's side: the task has ended
\* and dropped result_tx.
OutputClosed == pc \in {"done", "panicked"}

\* C29 (zero detectors): with no detector stream the task receives nothing,
\* sends nothing and ends at once, closing the output channel.
C29_ZeroDetectors ==
    total_detectors = 0 =>
        /\ OutputClosed
        /\ pc = "done"
        /\ received = <<>>
        /\ emitted = <<>>
        /\ result_tx = <<>>
        /\ Buffered = 0

\* C29 witness: process() was called with no detector stream and the consumer
\* found the output channel closed and empty.
C29_Witness ==
    /\ total_detectors = 0
    /\ OutputClosed
    /\ result_tx = <<>>
    /\ ~result_rx.open

\* Detector d has sent no verdict for span k: none was received from it and
\* none waits in its channel.
NotSentBy(d, k) ==
    /\ Delivered(d, k, Len(received)) = 0
    /\ \A i \in 1..Len(detection_streams[d].queue) : detection_streams[d].queue[i].span # k

\* No detector has delivered a verdict for the same span twice.
NoRepeatedReport ==
    \A i, j \in 1..Len(received) :
        (i # j /\ received[i].detector = received[j].detector) =>
            received[i].span # received[j].span

\* C23 (stall on a silent detector): while a detector whose channel is open
\* has sent no verdict for span S, neither S nor any span after S has been
\* sent and the task has not ended.  Stated for requests whose spans form a
\* chain and whose detectors report no span twice.
C23_SilentStall ==
    \A d \in 1..total_detectors : \A S \in Spans :
        (/\ detection_streams[d].open
         /\ NotSentBy(d, S)
         /\ NoRepeatedReport
         /\ IsChain(ReceivedSpans \cup {S})) =>
            /\ pc # "done"
            /\ ~IsEmitted(S)
            /\ \A T \in Spans : T[1] >= S[2] => ~IsEmitted(T)

\* C26 (sequential draining), as claimed: no verdict of a stream is received
\* while an earlier stream is open, and no span is sent while any stream but
\* the last is open.
C26_SequentialDraining ==
    /\ \A d \in 1..total_detectors :
         NumReceivedFrom(d) > 0 => \A o \in 1..(d - 1) : ~detection_streams[o].open
    /\ emitted # <<>> => \A o \in 1..(total_detectors - 1) : ~detection_streams[o].open

\* C26 amended: no verdict of a stream is received while an earlier stream
\* is open, and a span for which no detector delivered more than one verdict
\* is sent only when every stream but the last has closed.
C26_DrainingWithoutRepeats ==
    /\ \A d \in 1..total_detectors :
         NumReceivedFrom(d) > 0 =>
            \A o \in 1..(d - 1) :
                ~detection_streams[o].open /\ detection_streams[o].queue = <<>>
    /\ \A j \in 1..Len(emitted) :
         (\A d \in 1..total_detectors :
             Delivered(d, emitted[j].span, emitted[j].at) <= 1) =>
         /\ received[emitted[j].at].detector = total_detectors
         /\ \A o \in 1..(total_detectors - 1) : ~detection_streams[o].open

\* C26 witness: with two detectors the first stream has closed, the second
\* is still open, and a span reported once by each has been sent.
C26_Witness ==
    /\ total_detectors = 2
    /\ ~detection_streams[1].open
    /\ detection_streams[2].open
    /\ Len(emitted) = 1
    /\ Delivered(1, emitted[1].span, Len(received)) = 1
    /\ Delivered(2, emitted[1].span, Len(received)) = 1

\* C24 (serialized processing): a verdict is received only when the task is
\* at recv with no send outstanding; the tracker changes only by recording
\* the verdict just received; the watermark changes only in the send step,
\* to the end of the span sent.
C24_Serialized ==
    [][/\ received' # received =>
            /\ pc = "recv"
            /\ sending = NoSpan
            /\ Len(received') = Len(received) + 1
       /\ detection_tracker' # detection_tracker =>
            /\ received' # received
            /\ LET result == received'[Len(received')]
               IN \A k \in DOMAIN detection_tracker' :
                     k # result.span =>
                        k \in DOMAIN detection_tracker
                            /\ detection_tracker'[k] = detection_tracker[k]
       /\ processed_index' # processed_index =>
            /\ pc = "send"
            /\ pc' = "recv"
            /\ Len(emitted') = Len(emitted) + 1
            /\ processed_index' = sending[2]
       /\ pc = "send" => received' = received /\ detection_tracker' = detection_tracker
      ]_vars

\* C24 witness: the first verdict's span was sent and the watermark moved
\* before the second verdict was received.
C24_Witness ==
    /\ Len(received) = 2
    /\ Len(emitted) >= 1
    /\ emitted[1].at = 1
    /\ emitted[1].span[2] > emitted[1].span[1]
    /\ processed_index > 0

\* C25 (suspension points): the task waits only at a channel receive or a
\* channel send, never for the lock on the generation buffer.
C25_SuspensionPoints == pc # "lock"

\* The step in which the task reads generations[0] for the verdict received
\* last: straight after the receive when no writer holds the lock, or when
\* the lock is had after waiting for it.
ReadsGenerations ==
    \/ pc = "recv" /\ received' # received /\ generations_lock # "write"
    \/ pc = "lock" /\ pc' # "lock"

\* C28 (missing generation metadata): a verdict read against an empty buffer
\* or a poisoned lock ends the task without recording it and without any
\* event; after that nothing is received, recorded or sent; a verdict
\* read against a non-empty buffer gives a new record the input_token_count
\* of the buffer's first element and leaves an existing record's as it is;
\* every event sent carries the input_token_count of its span's record.
C28_MissingGenerations ==
    /\ [][ReadsGenerations =>
            IF generations = <<>> \/ generations_lock = "poisoned"
            THEN /\ pc' = "panicked"
                 /\ detection_tracker' = detection_tracker
                 /\ result_tx' = result_tx
                 /\ emitted' = emitted
            ELSE LET S == received'[Len(received')].span
                 IN /\ pc' # "panicked"
                    /\ S \in DOMAIN detection_tracker'
                    /\ detection_tracker'[S].result.input_token_count =
                          IF S \in DOMAIN detection_tracker
                          THEN detection_tracker[S].result.input_token_count
                          ELSE generations[1].input_token_count]_vars
    /\ [][pc = "panicked" =>
            /\ pc' = "panicked"
            /\ received' = received
            /\ detection_tracker' = detection_tracker
            /\ result_tx' = result_tx
            /\ emitted' = emitted]_vars
    /\ [](/\ Len(result_tx) = Len(emitted)
          /\ \A j \in 1..Len(emitted) :
                result_tx[j].input_token_count =
                    detection_tracker[emitted[j].span].result.input_token_count)

\* C28 witness: the first verdict's span was sent with an input_token_count
\* of 1, then the buffer was emptied and the task ended at the second
\* verdict, which is not in the tracker.
C28_Witness ==
    /\ pc = "panicked"
    /\ Len(received) = 2
    /\ Len(result_tx) = 1
    /\ result_tx[1].input_token_count = 1
    /\ generations = <<>>
    /\ received[2].span \notin DOMAIN detection_tracker

\* The step that records a verdict: a verdict is received and the task does
\* not end at it.
RecordsVerdict == received' # received /\ pc' # "panicked" /\ pc' # "lock"

\* The fields of a record that only its first verdict sets.
FirstVerdictFields(result) ==
    <<result.generated_text, result.start_index, result.processed_index,
      result.input_token_count>>

\* The first verdict received for span k.
FirstVerdictFor(k) ==
    received[CHOOSE i \in 1..Len(received) :
                /\ received[i].span = k
                /\ \A j \in 1..(i - 1) : received[j].span # k]

\* C27 (frame of record_verdict): recording a verdict for span S changes only
\* S's tracker record: every other span's record and the watermark are
\* unchanged by the recording step, no record is removed, and an existing
\* record keeps its generated_text, start_index, processed_index and
\* input_token_count, which are those of the first verdict recorded for S.
C27_RecordFrame ==
    /\ [][RecordsVerdict =>
            LET S == received'[Len(received')].span IN
            /\ processed_index' = processed_index
            /\ DOMAIN detection_tracker' = DOMAIN detection_tracker \cup {S}
            /\ \A k \in DOMAIN detection_tracker \ {S} :
                  detection_tracker'[k] = detection_tracker[k]
            /\ S \in DOMAIN detection_tracker =>
                  FirstVerdictFields(detection_tracker'[S].result)
                    = FirstVerdictFields(detection_tracker[S].result)]_vars
    /\ [](\A k \in DOMAIN detection_tracker :
            LET first == FirstVerdictFor(k)
                result == detection_tracker[k].result IN
            /\ result.generated_text = CollectText(first.tokens)
            /\ result.start_index = k[1]
            /\ result.processed_index = k[2])

\* C27 witness: a span has two verdicts recorded whose token texts differ,
\* and its record has the text of the first.
C27_Witness ==
    \E i, j \in 1..Len(received) :
        /\ i < j
        /\ received[i].span = received[j].span
        /\ CollectText(received[i].tokens) # CollectText(received[j].tokens)
        /\ detection_tracker[received[i].span].num_detectors = 2
        /\ detection_tracker[received[i].span].result.generated_text
             = CollectText(received[i].tokens)

\* The requests the generation client made to a backend other than `backend`.
OtherBackendCalls(backend) ==
    {i \in 1..Len(generation_client.backend_calls) :
        generation_client.backend_calls[i].backend # backend}

\* C30 (unconfigured generation backend): on a client built with
\* not_configured, every call of tokenize, generate and generate_stream
\* returns Error::ModelNotFound with the requested model_id and no backend is
\* contacted; on a client built with tgis(..) or nlp(..), every call makes
\* one request, for the requested model, to that backend and none to another.
C30_UnconfiguredBackend ==
    LET client == generation_client IN
    /\ client.inner = None =>
          /\ client.backend_calls = <<>>
          /\ \A i \in 1..Len(client.calls) :
                client.calls[i].result
                  = <<"Err", "ModelNotFound", client.calls[i].model_id>>
    /\ client.inner # None =>
          /\ OtherBackendCalls(client.inner) = {}
          /\ Len(client.backend_calls) = Len(client.calls)
          /\ \A i \in 1..Len(client.calls) :
                /\ client.backend_calls[i].model_id = client.calls[i].model_id
                /\ client.calls[i].result[2] = client.inner

\* C30 witness: tokenize, generate and generate_stream have each been called
\* on a client built with not_configured, for more than one model id.
C30_Witness ==
    /\ generation_client.inner = None
    /\ {generation_client.calls[i].method : i \in 1..Len(generation_client.calls)}
         = {"tokenize", "generate", "generate_stream"}
    /\ \E i, j \in 1..Len(generation_client.calls) :
          generation_client.calls[i].model_id # generation_client.calls[j].model_id

\* The low 32-bit words of the indices of the i-th verdict's chunk.
LowWords(i) ==
    <<received[i].chunk.start_index.lo, received[i].chunk.processed_index.lo>>

\* C31 (span key truncation): the tracker key of a verdict is its chunk's
\* start_index and processed_index truncated to 32 bits, and a tracker record
\* counts every verdict whose indices have its key as their low words, also
\* when the indices themselves differ.
C31_KeyTruncation ==
    /\ \A i \in 1..Len(received) :
          /\ received[i].span = LowWords(i)
          /\ received[i].span \in DOMAIN detection_tracker
    /\ \A k \in DOMAIN detection_tracker :
          detection_tracker[k].num_detectors
            = Cardinality({i \in 1..Len(received) : LowWords(i) = k})

\* C31 witness: two verdicts whose indices differ and agree in their low
\* words are counted in one record.
C31_Witness ==
    \E i, j \in 1..Len(received) :
        /\ i < j
        /\ received[i].chunk # received[j].chunk
        /\ received[i].chunk.start_index.hi # received[j].chunk.start_index.hi
        /\ LowWords(i) = LowWords(j)
        /\ detection_tracker[LowWords(i)].num_detectors = 2

\* The health RPC of the last NLP health check succeeded, or failed with
\* InvalidArgument or NotFound.
NlpAnswered ==
    \/ health_check.response.ok
    \/ health_check.response.code \in {"InvalidArgument", "NotFound"}

\* C32 (NLP health check): NlpClient::health reports Healthy exactly when the
\* health RPC succeeds or fails with InvalidArgument or NotFound, and Unhealthy
\* for every other error code; the reason is absent, and the code is the HTTP
\* status of Ok in the Healthy cases and of the gRPC error code otherwise.
C32_NlpHealth ==
    health_check.kind = "nlp" =>
        LET result == health_check.result IN
        /\ result.status \in {"HEALTHY", "UNHEALTHY"}
        /\ result.status = "HEALTHY" <=> NlpAnswered
        /\ result.reason = None
        /\ result.code = IF NlpAnswered
                         THEN <<"HTTP status of", "Ok">>
                         ELSE <<"HTTP status of", health_check.response.code>>

\* C32 witness: the health RPC failed with NotFound and the NLP client is
\* reported Healthy with the status of Ok.
C32_Witness ==
    /\ health_check.kind = "nlp"
    /\ ~health_check.response.ok
    /\ health_check.response.code = "NotFound"
    /\ health_check.result.status = "HEALTHY"
    /\ health_check.result.code = <<"HTTP status of", "Ok">>

====
